---- MODULE Spec2Model ----
(***************************************************************************)
(* Authentication and authorization core of the employee-management API    *)
(* (services/api-python): lockout state machine, token kinds, the dual     *)
(* JWT / API-key gateway and the permission / role guards.                 *)
(*                                                                         *)
(* Time is counted in minutes.  A nullable timestamp column holds NoTime   *)
(* when it is NULL.                                                        *)
(***************************************************************************)
EXTENDS Integers, Sequences, FiniteSets, TLC

\* ---------------------------------------------------------------- bounds
TickMinutes == 20
MaxTime == 90
NumReqs == 2
MaxRun == 6
MaxRequired == 2

\* ------------------------------------------------------ program constants
MAX_FAILED_ATTEMPTS == 5
LOCKOUT_DURATION_MINUTES == 30
JWT_EXPIRATION == 3600
REFRESH_TOKEN_EXPIRATION == 604800
SecondsPerMinute == 60
NoTime == 0
NoUser == 0

Users == {1, 2, 3}
Usernames == {"alice", "bob", "carol"}
Passwords == {"Secret123", "wrong"}
Identifiers == {"alice", "alice@x.com", "bob", "nobody"}
Salts == {"s1", "s2"}

\* salaries: dates are day numbers, date.today() is Today
Today == 1
EndOfTime == 9999
EmpNo == 10001

\* the salaries table at the start: one employee with one current record
InitSalaries ==
    <<[emp_no |-> EmpNo, salary |-> 50000, from_date |-> 0, to_date |-> EndOfTime]>>

VARIABLES
    users,      \* the users table: id -> committed row
    now,        \* datetime.utcnow(), in minutes
    last,       \* the last completed call and what it answered
    run,        \* the run of consecutive wrong-password calls in progress
    reqs,       \* concurrent authenticate_user calls: id -> coroutine state
    api_keys,   \* the api_keys table
    roles,      \* the roles table: name -> row
    user_roles, \* the user_roles join table: set of <<user id, role name>>
    salaries    \* the salaries table: id -> committed row

vars == <<users, now, last, run, reqs, api_keys, roles, user_roles, salaries>>

\* ------------------------------------------------------- password hashing

\* pwd_context.hash: a salted one-way digest of the plaintext
hash_password(password, salt) ==
    [scheme |-> "bcrypt", salt |-> salt, digest |-> <<salt, password>>]

\* hashlib.sha256(text).hexdigest(): hex text that names no passlib scheme
sha256_hexdigest(text) == [scheme |-> "sha256", salt |-> "", digest |-> <<"", text>>]

\* pwd_context.verify (CryptContext(schemes=["bcrypt"])): a hash that is not
\* identified as bcrypt raises UnknownHashError; otherwise the digest is
\* recomputed under the stored salt
pwd_context_verify(secret, hash) ==
    IF hash.scheme # "bcrypt" THEN "UnknownHashError"
    ELSE IF hash.digest = <<hash.salt, secret>> THEN "True"
    ELSE "False"

\* verify_password: TRUE when pwd_context.verify returns True
verify_password(plain_password, hashed_password) ==
    pwd_context_verify(plain_password, hashed_password) = "True"

\* ------------------------------------------------------------- User model

\* User.is_locked
is_locked(user, t) ==
    IF user.locked_until # NoTime THEN user.locked_until > t ELSE FALSE

\* ------------------------------------------------- UserRepository lookups

\* UserRepository.get_by_username
get_by_username(tbl, username) ==
    IF \E u \in Users : tbl[u].username = username
    THEN CHOOSE u \in Users : tbl[u].username = username
    ELSE NoUser

\* UserRepository.get_by_email
get_by_email(tbl, email) ==
    IF \E u \in Users : tbl[u].email = email
    THEN CHOOSE u \in Users : tbl[u].email = email
    ELSE NoUser

\* ------------------------------------------------- BaseRepository.update
\* row is the committed row, db_obj the session's object for it (get_by_id
\* returns the object the session already holds, with the attributes it
\* loaded), obj_in the new field values.  setattr marks a field changed only
\* when the value differs from the object's; commit writes the changed
\* fields; refresh then loads the committed row into the object.
update(row, db_obj, obj_in) ==
    [f \in DOMAIN row |->
        IF f \in DOMAIN obj_in
        THEN IF db_obj[f] # obj_in[f] THEN obj_in[f] ELSE row[f]
        ELSE row[f]]

\* --------------------------------------- UserRepository lockout mutations
\* Each returns the committed row, which is also the session's object after
\* the refresh.

\* UserRepository.increment_failed_login
increment_failed_login(row, user) ==
    update(row, user, [failed_login_attempts |-> user.failed_login_attempts + 1])

reset_failed_login_keeps_lock(row, user) ==
    update(row, user, [failed_login_attempts |-> 0])

\* UserRepository.reset_failed_login
reset_failed_login(row, user) ==
    update(row, user, [failed_login_attempts |-> 0, locked_until |-> NoTime])

\* UserRepository.lock_account
lock_account(row, user, t, lock_duration_minutes) ==
    update(row, user, [locked_until |-> t + lock_duration_minutes])

\* UserRepository.unlock_account
unlock_account(row, user) ==
    update(row, user, [locked_until |-> NoTime, failed_login_attempts |-> 0])

\* UserRepository.update_last_login
update_last_login(row, user, t) ==
    update(row, user, [last_login |-> t])

\* ------------------------------------------------------------ Python values
\* A dict is a function from keys to values; str() of a value is its text.

EmptyDict == [k \in {} |-> ""]

\* dict.update(other): the keys of other win
dict_update(d, other) == other @@ d

\* dict.get(key): None is modelled as the empty string
dict_get(d, key) == IF key \in DOMAIN d THEN d[key] ELSE ""

Digit == <<"1", "2", "3">>

PyStr(s) == [t |-> "str", s |-> s]
PyInt(n) == [t |-> "int", n |-> n]
PyDict(d) == [t |-> "dict", d |-> d]

\* str(subject) as create_access_token applies it
str_(x) ==
    CASE x.t = "str" -> x.s
      [] x.t = "int" -> Digit[x.n]
      [] x.t = "dict" -> "{'sub': '" \o x.d["sub"] \o "', 'username': '"
                          \o x.d["username"] \o "'}"

\* ------------------------------------------------------------------ tokens
SECRET_KEY == "your-secret-key-change-in-production"

\* jwt.encode: the payload travels in clear, bound to the key by a signature
jwt_encode(payload, key) == [payload |-> payload, sig |-> <<key, payload>>]

NoToken == [payload |-> EmptyDict, sig |-> <<"", EmptyDict>>]

\* The value of an Authorization: Bearer header.  oauth2_scheme and
\* http_bearer both read this header, so the token and the API-key
\* credentials of one request are the same string: a JWT, an opaque text, or
\* nothing when the header is absent.
NoBearer == [kind |-> "none", token |-> NoToken, text |-> ""]
JwtBearer(token) == [kind |-> "jwt", token |-> token, text |-> ""]
OpaqueBearer(text) == [kind |-> "opaque", token |-> NoToken, text |-> text]

\* create_access_token
create_access_token(subject, additional_claims, t) ==
    LET to_encode == [k \in {"exp", "sub", "iat", "type"} |->
                         CASE k = "exp" -> t + (JWT_EXPIRATION \div SecondsPerMinute)
                           [] k = "sub" -> str_(subject)
                           [] k = "iat" -> t
                           [] k = "type" -> "access"]
    IN jwt_encode(dict_update(to_encode, additional_claims), SECRET_KEY)

\* create_refresh_token
create_refresh_token(subject, t) ==
    LET to_encode == [k \in {"exp", "sub", "iat", "type"} |->
                         CASE k = "exp" -> t + (REFRESH_TOKEN_EXPIRATION \div SecondsPerMinute)
                           [] k = "sub" -> str_(subject)
                           [] k = "iat" -> t
                           [] k = "type" -> "refresh"]
    IN jwt_encode(to_encode, SECRET_KEY)

\* jwt.decode inside decode_token: signature first, then expiry
jwt_valid(token, t) ==
    /\ token.sig = <<SECRET_KEY, token.payload>>
    /\ "exp" \in DOMAIN token.payload => token.payload["exp"] >= t

\* decode_token: the payload, or HTTPException(401); a string that is not a
\* JWT fails to decode
decode_token(bearer, t) ==
    IF bearer.kind = "jwt" /\ jwt_valid(bearer.token, t)
    THEN [ok |-> TRUE, payload |-> bearer.token.payload]
    ELSE [ok |-> FALSE, payload |-> EmptyDict]

\* what jwt.decode raises inside decode_token: JWTError for a string that is
\* no JWT or a signature that does not verify, its subclass
\* ExpiredSignatureError for a verified token whose exp has passed
jwt_decode_raises(bearer, t) ==
    IF bearer.kind # "jwt" \/ bearer.token.sig # <<SECRET_KEY, bearer.token.payload>>
    THEN "JWTError"
    ELSE IF ~jwt_valid(bearer.token, t) THEN "ExpiredSignatureError"
    ELSE ""

\* what decode_token raises to its caller: `except JWTError` catches both
decode_token_raises(bearer, t) ==
    IF jwt_decode_raises(bearer, t) \in {"JWTError", "ExpiredSignatureError"}
    THEN [status |-> 401, detail |-> "Could not validate credentials"]
    ELSE [status |-> 0, detail |-> ""]

\* JWTHandler.create_access_token(data): a signed access token over data
JWTHandler_create_access_token(data, t) ==
    jwt_encode(dict_update(data, [k \in {"exp", "iat", "type"} |->
                 CASE k = "exp" -> t + (JWT_EXPIRATION \div SecondsPerMinute)
                   [] k = "iat" -> t
                   [] k = "type" -> "access"]), SECRET_KEY)

\* JWTHandler.create_refresh_token(data): a signed refresh token over data
JWTHandler_create_refresh_token(data, t) ==
    jwt_encode(dict_update(data, [k \in {"exp", "iat", "type"} |->
                 CASE k = "exp" -> t + (REFRESH_TOKEN_EXPIRATION \div SecondsPerMinute)
                   [] k = "iat" -> t
                   [] k = "type" -> "refresh"]), SECRET_KEY)

\* JWTHandler.decode_token: verifies signature and expiry
JWTHandler_decode_token(bearer, t) ==
    IF /\ bearer.kind = "jwt"
       /\ bearer.token.sig = <<SECRET_KEY, bearer.token.payload>>
       /\ "exp" \in DOMAIN bearer.token.payload => bearer.token.payload["exp"] >= t
    THEN [ok |-> TRUE, payload |-> bearer.token.payload]
    ELSE [ok |-> FALSE, payload |-> EmptyDict]

\* PasswordHasher.verify_password
PasswordHasher_verify_password(plain_password, hashed_password) ==
    hashed_password.digest = <<hashed_password.salt, plain_password>>

\* ------------------------------------------------------------- API keys

\* hash_api_key
hash_api_key(api_key, salt) ==
    [scheme |-> "bcrypt", salt |-> salt, digest |-> <<salt, api_key>>]

\* verify_api_key: TRUE when pwd_context.verify of the presented string
\* returns True
verify_api_key(plain_key, hashed_key) ==
    /\ plain_key.kind = "opaque"
    /\ pwd_context_verify(plain_key.text, hashed_key) = "True"

\* ApiKey.is_expired
is_expired(key_record, t) ==
    IF key_record.expires_at # NoTime THEN key_record.expires_at < t ELSE FALSE

\* ------------------------------------------------------------ initial rows
UserRow(username, email, password, salt, active, superuser) ==
    [username |-> username, email |-> email,
     password_hash |-> hash_password(password, salt),
     is_active |-> active, is_superuser |-> superuser,
     failed_login_attempts |-> 0, locked_until |-> NoTime, last_login |-> NoTime]

NoRow == UserRow("", "", "", "", FALSE, FALSE)

InitUsers ==
    [u \in Users |->
        CASE u = 1 -> UserRow("alice", "alice@x.com", "Secret123", "s1", TRUE, FALSE)
          [] u = 2 -> UserRow("bob", "bob@x.com", "Secret123", "s2", FALSE, FALSE)
          [] u = 3 -> UserRow("carol", "carol@x.com", "Secret123", "s1", TRUE, TRUE)]

RoleNames == {"reader", "writer", "admin"}
Permissions == {"read:x", "write:x", "delete:x"}

RoleRow(permissions, active) ==
    [permissions |-> permissions, is_active |-> active, updated_at |-> 0]

InitRoles(writer_active) ==
    [name \in RoleNames |->
        CASE name = "reader" -> RoleRow(<<"read:x">>, TRUE)
          [] name = "writer" -> RoleRow(<<"write:x", "read:x">>, writer_active)
          [] name = "admin" -> RoleRow(<<"*">>, TRUE)]

ApiKeyRow(plain, salt, user_id, active, expires_at) ==
    [key_hash |-> hash_api_key(plain, salt), user_id |-> user_id,
     is_active |-> active, expires_at |-> expires_at, last_used_at |-> NoTime]

InitApiKeys ==
    <<ApiKeyRow("ak_alice", "s1", 1, TRUE, NoTime),
      ApiKeyRow("ak_bob", "s2", 2, TRUE, NoTime)>>

\* the record kept of the last completed call
Called(op, user, password, verified, result, status, detail, before, access, refresh) ==
    [op |-> op, user |-> user, password |-> password, verified |-> verified,
     result |-> result, status |-> status, detail |-> detail,
     before |-> before, at |-> now, access |-> access, refresh |-> refresh]

NoRun == [op |-> "", user |-> NoUser, n |-> 0]

\* the run of consecutive wrong-password calls of one kind on one user, begun
\* on a row with no failed attempts and no lock, after one more call
RunAfter(r, op, u, wrong, before) ==
    IF ~wrong THEN NoRun
    ELSE IF r.op = op /\ r.user = u /\ r.n >= 1
    THEN IF r.n < MaxRun THEN [r EXCEPT !.n = r.n + 1] ELSE NoRun
    ELSE IF before.failed_login_attempts = 0 /\ before.locked_until = NoTime
    THEN [op |-> op, user |-> u, n |-> 1]
    ELSE NoRun

\* ============================================================ lockout
\* Sequential calls: every call runs in a session of its own and completes
\* before the next one starts.

authenticate_found_naming_factor(user, password, t) ==
    IF is_locked(user, t)
    THEN [row |-> user, verified |-> FALSE, result |-> "ValueError",
          detail |-> "Account locked until", access |-> NoToken]
    ELSE IF ~user.is_active
    THEN [row |-> user, verified |-> FALSE, result |-> "None",
          detail |-> "", access |-> NoToken]
    ELSE IF ~verify_password(password, user.password_hash)
    THEN LET counted == increment_failed_login(user, user) IN
         IF counted.failed_login_attempts + 1 >= MAX_FAILED_ATTEMPTS
         THEN [row |-> lock_account(counted, counted, t, LOCKOUT_DURATION_MINUTES),
               verified |-> TRUE, result |-> "ValueError",
               detail |-> "Account locked due to too many failed login attempts",
               access |-> NoToken]
         ELSE [row |-> counted, verified |-> TRUE, result |-> "None",
               detail |-> "Incorrect password", access |-> NoToken]
    ELSE LET cleared == reset_failed_login(user, user)
             fresh == update_last_login(cleared, cleared, t)
             token_data == [k \in {"sub", "username"} |->
                               IF k = "sub" THEN Digit[get_by_username(users, user.username)]
                                            ELSE user.username]
         IN [row |-> fresh, verified |-> TRUE, result |-> "dict", detail |-> "",
             access |-> create_access_token(PyDict(token_data), EmptyDict, t)]

\* AuthService.authenticate_user's outcome for a user row found by the lookup:
\* the row as committed at the end of the call, and what the caller gets.
authenticate_found(user, password, t) ==
    IF is_locked(user, t)
    THEN [row |-> user, verified |-> FALSE, result |-> "ValueError",
          detail |-> "Account locked until", access |-> NoToken]
    ELSE IF ~user.is_active
    THEN [row |-> user, verified |-> FALSE, result |-> "None",
          detail |-> "", access |-> NoToken]
    ELSE IF ~verify_password(password, user.password_hash)
    THEN LET counted == increment_failed_login(user, user) IN
         IF counted.failed_login_attempts + 1 >= MAX_FAILED_ATTEMPTS
         THEN [row |-> lock_account(counted, counted, t, LOCKOUT_DURATION_MINUTES),
               verified |-> TRUE, result |-> "ValueError",
               detail |-> "Account locked due to too many failed login attempts",
               access |-> NoToken]
         ELSE [row |-> counted, verified |-> TRUE, result |-> "None",
               detail |-> "", access |-> NoToken]
    ELSE LET cleared == reset_failed_login(user, user)
             fresh == update_last_login(cleared, cleared, t)
             token_data == [k \in {"sub", "username"} |->
                               IF k = "sub" THEN Digit[get_by_username(users, user.username)]
                                            ELSE user.username]
         IN [row |-> fresh, verified |-> TRUE, result |-> "dict", detail |-> "",
             access |-> create_access_token(PyDict(token_data), EmptyDict, t)]

\* AuthService.authenticate_user(username, password)
Authenticate(username, password) ==
    /\ LET byName == get_by_username(users, username)
           u == IF byName # NoUser THEN byName ELSE get_by_email(users, username)
       IN IF u = NoUser
          THEN /\ last' = Called("authenticate_user", NoUser, password, FALSE, "None",
                                 0, "", NoRow, NoToken, NoToken)
               /\ run' = NoRun
               /\ UNCHANGED users
          ELSE LET out == authenticate_found(users[u], password, now)
                   wrong == ~verify_password(password, users[u].password_hash)
               IN /\ users' = [users EXCEPT ![u] = out.row]
                  /\ last' = Called("authenticate_user", u, password, out.verified,
                                    out.result, 0, out.detail, users[u],
                                    out.access, NoToken)
                  /\ run' = RunAfter(run, "authenticate_user", u, wrong, users[u])
    /\ UNCHANGED <<now, reqs, api_keys, roles, user_roles, salaries>>

\* POST /auth/login (endpoints/auth.py): what the endpoint answers for the
\* row its query returned, and the row it commits
login_found(user, uid, password, t) ==
    IF ~PasswordHasher_verify_password(password, user.password_hash)
    THEN [row |-> user, status |-> 401, detail |-> "Incorrect username or password",
          access |-> NoToken, refresh |-> NoToken]
    ELSE IF ~user.is_active
    THEN [row |-> user, status |-> 401, detail |-> "User account is inactive",
          access |-> NoToken, refresh |-> NoToken]
    ELSE IF user.locked_until # NoTime /\ user.locked_until > t
    THEN [row |-> user, status |-> 401, detail |-> "Account is locked until",
          access |-> NoToken, refresh |-> NoToken]
    ELSE [row |-> [user EXCEPT !.failed_login_attempts = 0, !.last_login = t],
          status |-> 200, detail |-> "",
          access |-> JWTHandler_create_access_token([k \in {"sub"} |-> Digit[uid]], t),
          refresh |-> JWTHandler_create_refresh_token([k \in {"sub"} |-> Digit[uid]], t)]

\* POST /auth/login
Login(username, password) ==
    /\ LET u == get_by_username(users, username)
       IN IF u = NoUser
          THEN /\ last' = Called("login", NoUser, password, FALSE, "HTTPException", 401,
                                 "Incorrect username or password", NoRow, NoToken, NoToken)
               /\ run' = NoRun
               /\ UNCHANGED users
          ELSE LET out == login_found(users[u], u, password, now)
                   wrong == ~PasswordHasher_verify_password(password, users[u].password_hash)
               IN /\ users' = [users EXCEPT ![u] = out.row]
                  /\ last' = Called("login", u, password, TRUE,
                                    IF out.status = 200 THEN "Token" ELSE "HTTPException",
                                    out.status, out.detail, users[u], out.access, out.refresh)
                  /\ run' = RunAfter(run, "login", u, wrong, users[u])
    /\ UNCHANGED <<now, reqs, api_keys, roles, user_roles, salaries>>

\* AuthService.unlock_user_account(user_id)
UnlockUserAccount(u) ==
    /\ users' = [users EXCEPT ![u] = unlock_account(users[u], users[u])]
    /\ last' = Called("unlock_user_account", u, "", FALSE, "True", 0, "",
                      users[u], NoToken, NoToken)
    /\ run' = NoRun
    /\ UNCHANGED <<now, reqs, api_keys, roles, user_roles, salaries>>

\* the clock advances between calls
Tick ==
    /\ now + TickMinutes <= MaxTime
    /\ now' = now + TickMinutes
    /\ UNCHANGED <<users, last, run, reqs, api_keys, roles, user_roles, salaries>>

NoCall == [op |-> "init", user |-> NoUser, password |-> "", verified |-> FALSE,
           result |-> "", status |-> 0, detail |-> "", before |-> NoRow, at |-> 0,
           access |-> NoToken, refresh |-> NoToken]

Init ==
    /\ users = InitUsers
    /\ now = 0
    /\ last = NoCall
    /\ run = NoRun
    /\ reqs = <<>>
    /\ api_keys = InitApiKeys
    /\ roles = InitRoles(TRUE)
    /\ user_roles = {}
    /\ salaries = InitSalaries

Next ==
    \/ \E username \in Identifiers, password \in Passwords : Authenticate(username, password)
    \/ \E username \in Identifiers, password \in Passwords : Login(username, password)
    \/ \E u \in Users : UnlockUserAccount(u)
    \/ Tick

Spec == Init /\ [][Next]_vars

\* ============================================================ concurrency
\* NumReqs authenticate_user calls for the same user run at once, each in a
\* session of its own.  A coroutine yields at its awaits; here it takes one
\* step per await that reads or writes committed data.

ReqIds == 1 .. NumReqs

ConcUser == 1

NewReq == [pc |-> "start", password |-> "", user |-> NoRow, result |-> "",
           counted |-> FALSE]

\* await get_by_username, then the lock, active and password tests
ReqLookup(r, password) ==
    /\ reqs[r].pc = "start"
    /\ LET user == users[ConcUser]
           to == IF is_locked(user, now) THEN "raised"
                 ELSE IF ~user.is_active THEN "returned"
                 ELSE IF ~verify_password(password, user.password_hash) THEN "increment"
                 ELSE "reset"
       IN reqs' = [reqs EXCEPT ![r] =
                     [pc |-> to, password |-> password, user |-> user,
                      counted |-> FALSE,
                      result |-> IF to = "raised" THEN "ValueError"
                                 ELSE IF to = "returned" THEN "None" ELSE ""]]
    /\ UNCHANGED <<users, now, last, run, api_keys, roles, user_roles, salaries>>

\* increment_failed_login up to the commit inside update
ReqIncrementCommit(r) ==
    /\ reqs[r].pc = "increment"
    /\ users' = [users EXCEPT ![ConcUser] = increment_failed_login(@, reqs[r].user)]
    /\ reqs' = [reqs EXCEPT ![r].pc = "increment_refresh", ![r].counted = TRUE]
    /\ UNCHANGED <<now, last, run, api_keys, roles, user_roles, salaries>>

\* await refresh inside update, then the threshold test
ReqIncrementRefresh(r) ==
    /\ reqs[r].pc = "increment_refresh"
    /\ LET user == users[ConcUser]
       IN reqs' = [reqs EXCEPT ![r] =
                     IF user.failed_login_attempts + 1 >= MAX_FAILED_ATTEMPTS
                     THEN [@ EXCEPT !.pc = "lock", !.user = user]
                     ELSE [@ EXCEPT !.pc = "returned", !.user = user, !.result = "None"]]
    /\ UNCHANGED <<users, now, last, run, api_keys, roles, user_roles, salaries>>

\* lock_account, the commit, and the raise
ReqLock(r) ==
    /\ reqs[r].pc = "lock"
    /\ users' = [users EXCEPT ![ConcUser] =
                    lock_account(@, reqs[r].user, now, LOCKOUT_DURATION_MINUTES)]
    /\ reqs' = [reqs EXCEPT ![r].pc = "raised", ![r].result = "ValueError"]
    /\ UNCHANGED <<now, last, run, api_keys, roles, user_roles, salaries>>

\* reset_failed_login: commit and refresh
ReqReset(r) ==
    /\ reqs[r].pc = "reset"
    /\ LET row == reset_failed_login(users[ConcUser], reqs[r].user)
       IN /\ users' = [users EXCEPT ![ConcUser] = row]
          /\ reqs' = [reqs EXCEPT ![r].pc = "last_login", ![r].user = row]
    /\ UNCHANGED <<now, last, run, api_keys, roles, user_roles, salaries>>

\* update_last_login, the commit, and the return of the token
ReqLastLogin(r) ==
    /\ reqs[r].pc = "last_login"
    /\ users' = [users EXCEPT ![ConcUser] = update_last_login(@, reqs[r].user, now)]
    /\ reqs' = [reqs EXCEPT ![r].pc = "returned", ![r].result = "dict"]
    /\ UNCHANGED <<now, last, run, api_keys, roles, user_roles, salaries>>

\* the row starts with a count that sequential failures can leave unlocked;
\* run.n remembers it
InitConc ==
    /\ \E n \in 0 .. MAX_FAILED_ATTEMPTS - 2 :
          /\ users = [InitUsers EXCEPT ![ConcUser].failed_login_attempts = n]
          /\ run = [op |-> "concurrent", user |-> ConcUser, n |-> n]
    /\ now = 0
    /\ last = NoCall
    /\ reqs = [r \in ReqIds |-> NewReq]
    /\ api_keys = InitApiKeys
    /\ roles = InitRoles(TRUE)
    /\ user_roles = {}
    /\ salaries = InitSalaries

NextConc ==
    \/ \E r \in ReqIds, password \in Passwords : ReqLookup(r, password)
    \/ \E r \in ReqIds : ReqIncrementCommit(r)
    \/ \E r \in ReqIds : ReqIncrementRefresh(r)
    \/ \E r \in ReqIds : ReqLock(r)
    \/ \E r \in ReqIds : ReqReset(r)
    \/ \E r \in ReqIds : ReqLastLogin(r)

SpecConc == InitConc /\ [][NextConc]_vars

\* ============================================================ gateway
\* Requests are sequential; a request presents one Authorization header.

\* get_current_user: the payload tests after decoding
access_payload_ok_any_type(payload) ==
    dict_get(payload, "sub") # ""

access_payload_ok(payload) ==
    dict_get(payload, "sub") # "" /\ dict_get(payload, "type") = "access"

\* select(User).where(username == ..., is_active == True)
active_user_by_username(tbl, username) ==
    IF \E u \in Users : tbl[u].username = username /\ tbl[u].is_active
    THEN CHOOSE u \in Users : tbl[u].username = username /\ tbl[u].is_active
    ELSE NoUser

user_by_id(tbl, user_id) ==
    IF \E u \in Users : Digit[u] = user_id
    THEN CHOOSE u \in Users : Digit[u] = user_id
    ELSE NoUser

\* select(User).where(id == ..., is_active == True), the id given as text
active_user_by_id(tbl, user_id) ==
    IF \E u \in Users : Digit[u] = user_id /\ tbl[u].is_active
    THEN CHOOSE u \in Users : Digit[u] = user_id /\ tbl[u].is_active
    ELSE NoUser

Answer(status, detail, user) == [status |-> status, detail |-> detail, user |-> user]

get_current_user_ignoring_lock(token, tbl, t) ==
    IF token.kind = "none"
    THEN Answer(401, "Could not validate credentials", NoUser)
    ELSE LET decoded == decode_token(token, t) IN
         IF ~decoded.ok \/ ~access_payload_ok(decoded.payload)
         THEN Answer(401, "Could not validate credentials", NoUser)
         ELSE LET user == active_user_by_username(tbl, decoded.payload["sub"]) IN
              IF user = NoUser
              THEN Answer(401, "Could not validate credentials", NoUser)
              ELSE Answer(200, "", user)

\* get_current_user: the answer (200 stands for the returned user)
get_current_user(token, tbl, t) ==
    IF token.kind = "none"
    THEN Answer(401, "Could not validate credentials", NoUser)
    ELSE LET decoded == decode_token(token, t) IN
         IF ~decoded.ok \/ ~access_payload_ok(decoded.payload)
         THEN Answer(401, "Could not validate credentials", NoUser)
         ELSE LET user == active_user_by_username(tbl, decoded.payload["sub"]) IN
              IF user = NoUser
              THEN Answer(401, "Could not validate credentials", NoUser)
              ELSE IF is_locked(tbl[user], t)
              THEN Answer(403, "Account is locked. Please contact administrator.", NoUser)
              ELSE Answer(200, "", user)

\* get_current_user: the users table after the call
get_current_user_commit(token, tbl, t) ==
    LET answer == get_current_user(token, tbl, t) IN
    IF answer.status = 200
    THEN [tbl EXCEPT ![answer.user].last_login = t]
    ELSE tbl

\* get_current_user_optional: the user, or None
get_current_user_optional(token, tbl, t) ==
    IF token.kind = "none" THEN NoUser
    ELSE get_current_user(token, tbl, t).user

\* get_api_key_user: the active key records that verify, in scan order
matching_keys(credentials, keys) ==
    {i \in DOMAIN keys : keys[i].is_active /\ verify_api_key(credentials, keys[i].key_hash)}

first_match(credentials, keys) ==
    CHOOSE i \in matching_keys(credentials, keys) :
        \A j \in matching_keys(credentials, keys) : i <= j

\* get_api_key_user: the scan reaches an active key record whose hash makes
\* verify_api_key raise before it reaches a record that verifies
scan_raises(credentials, keys) ==
    \E i \in DOMAIN keys :
        /\ keys[i].is_active
        /\ pwd_context_verify(credentials.text, keys[i].key_hash) = "UnknownHashError"
        /\ \A j \in matching_keys(credentials, keys) : i < j

\* get_api_key_user: the answer (200 stands for a returned user or None)
get_api_key_user(credentials, keys, tbl, t) ==
    IF credentials.kind = "none" THEN Answer(200, "", NoUser)
    ELSE IF scan_raises(credentials, keys) THEN Answer(500, "UnknownHashError", NoUser)
    ELSE IF matching_keys(credentials, keys) = {}
    THEN Answer(401, "Invalid API key", NoUser)
    ELSE LET key_record == keys[first_match(credentials, keys)] IN
         IF is_expired(key_record, t)
         THEN Answer(401, "API key has expired", NoUser)
         ELSE IF key_record.user_id \notin Users \/ ~tbl[key_record.user_id].is_active
         THEN Answer(401, "User account is inactive", NoUser)
         ELSE Answer(200, "", key_record.user_id)

\* get_api_key_user: the api_keys table after the call
get_api_key_user_commit(credentials, keys, t) ==
    IF credentials.kind # "none" /\ ~scan_raises(credentials, keys)
       /\ matching_keys(credentials, keys) # {}
       /\ ~is_expired(keys[first_match(credentials, keys)], t)
    THEN [keys EXCEPT ![first_match(credentials, keys)].last_used_at = t]
    ELSE keys

\* get_current_user_or_api_key, after FastAPI has resolved both dependencies
\* from the request's header
get_current_user_or_api_key(header, keys, tbl, t) ==
    LET user_from_token == get_current_user_optional(header, tbl, t)
        from_api_key == get_api_key_user(header, keys,
                                         get_current_user_commit(header, tbl, t), t)
    IN IF from_api_key.status # 200 THEN from_api_key
       ELSE LET user == IF user_from_token # NoUser THEN user_from_token
                        ELSE from_api_key.user
            IN IF user = NoUser THEN Answer(401, "Not authenticated", NoUser)
               ELSE Answer(200, "", user)

\* POST /auth/refresh: every failure inside the try block leaves as 401
refresh_found(refresh_token, tbl, t) ==
    LET decoded == JWTHandler_decode_token(refresh_token, t) IN
    IF ~decoded.ok \/ dict_get(decoded.payload, "type") # "refresh"
    THEN NoUser
    ELSE active_user_by_id(tbl, dict_get(decoded.payload, "sub"))

GateCalled(op, bearer, answer, access, refresh) ==
    [op |-> op, bearer |-> bearer, status |-> answer.status, detail |-> answer.detail,
     user |-> answer.user, at |-> now, access |-> access, refresh |-> refresh]

\* a request to an endpoint that depends on get_current_user
GetCurrentUser(token) ==
    /\ users' = get_current_user_commit(token, users, now)
    /\ last' = GateCalled("get_current_user", token,
                          get_current_user(token, users, now), NoToken, NoToken)
    /\ UNCHANGED <<now, run, reqs, api_keys, roles, user_roles, salaries>>

\* POST /auth/refresh
RefreshToken(refresh_token) ==
    /\ LET user == refresh_found(refresh_token, users, now)
       IN last' = IF user = NoUser
                  THEN GateCalled("refresh_token", refresh_token,
                                  Answer(401, "Could not validate refresh token", NoUser),
                                  NoToken, NoToken)
                  ELSE GateCalled("refresh_token", refresh_token, Answer(200, "", user),
                           JWTHandler_create_access_token([k \in {"sub"} |-> Digit[user]], now),
                           JWTHandler_create_refresh_token([k \in {"sub"} |-> Digit[user]], now))
    /\ UNCHANGED <<users, now, run, reqs, api_keys, roles, user_roles, salaries>>

\* a request to an endpoint that depends on get_current_user_or_api_key
GatewayRequest(header) ==
    /\ users' = get_current_user_commit(header, users, now)
    /\ api_keys' = get_api_key_user_commit(header, api_keys, now)
    /\ last' = GateCalled("get_current_user_or_api_key", header,
                          get_current_user_or_api_key(header, api_keys, users, now),
                          NoToken, NoToken)
    /\ UNCHANGED <<now, run, reqs, roles, user_roles, salaries>>

\* the bearer strings a client can present at time t: tokens issued at the
\* start or just now, a forged and a tampered token, API keys, other text,
\* no header
Subjects == {PyStr("alice"), PyStr("bob"), PyInt(1)}
ClaimSets == {EmptyDict, [k \in {"email"} |-> "alice@x.com"]}
IssueTimes(t) == {0, t}

IssuedTokens(t) ==
    {create_access_token(s, c, i) : s \in Subjects, c \in ClaimSets, i \in IssueTimes(t)}
    \cup {create_refresh_token(s, i) : s \in Subjects, i \in IssueTimes(t)}

ForgedTokens(t) ==
    {jwt_encode(create_access_token(PyStr("alice"), EmptyDict, t).payload, "attacker-key")}
    \cup {[payload |-> [tok.payload EXCEPT !["type"] = "access"], sig |-> tok.sig] :
             tok \in {create_refresh_token(PyStr("alice"), t)}}

Bearers(t) ==
    {JwtBearer(tok) : tok \in IssuedTokens(t) \cup ForgedTokens(t)}
    \cup {OpaqueBearer(text) : text \in {"ak_alice", "ak_bob", "garbage"}}
    \cup {NoBearer}

NextGate ==
    \/ \E token \in Bearers(now) : GetCurrentUser(token)
    \/ \E token \in Bearers(now) : RefreshToken(token)
    \/ \E header \in Bearers(now) : GatewayRequest(header)
    \/ Tick

SpecGate == Init /\ [][NextGate]_vars

\* ============================================================ guards
\* Requests are sequential; current_user is what get_current_user returned,
\* an active user with its roles loaded.

\* the elements of a list
Elements(list) == {list[i] : i \in DOMAIN list}

\* User.roles: the Role rows joined through user_roles
user_role_names(u, assigned) == {name \in RoleNames : <<u, name>> \in assigned}

has_permission_of_any_role(u, permission, tbl, role_tbl, assigned) ==
    IF tbl[u].is_superuser THEN TRUE
    ELSE \E name \in user_role_names(u, assigned) :
            permission \in Elements(role_tbl[name].permissions)

\* User.has_permission
has_permission(u, permission, tbl, role_tbl, assigned) ==
    IF tbl[u].is_superuser THEN TRUE
    ELSE \E name \in user_role_names(u, assigned) :
            role_tbl[name].is_active /\ permission \in Elements(role_tbl[name].permissions)

\* User.has_role
has_role(u, role_name, role_tbl, assigned) ==
    \E name \in user_role_names(u, assigned) :
        name = role_name /\ role_tbl[name].is_active

\* ", ".join(list)
RECURSIVE join(_)
join(list) ==
    IF list = <<>> THEN ""
    ELSE IF Len(list) = 1 THEN list[1]
    ELSE list[1] \o ", " \o join(Tail(list))

\* the first index of a list whose element is not among the held ones, 0
\* when all are
first_missing(list, held) ==
    IF \E i \in DOMAIN list : list[i] \notin held
    THEN CHOOSE i \in DOMAIN list :
            list[i] \notin held /\ \A j \in DOMAIN list : list[j] \notin held => i <= j
    ELSE 0

permission_checker_any(u, required_permissions, require_all, tbl, role_tbl, assigned) ==
    LET Has(p) == has_permission(u, p, tbl, role_tbl, assigned) IN
    IF tbl[u].is_superuser THEN Answer(200, "", u)
    ELSE IF ~(\E i \in DOMAIN required_permissions : Has(required_permissions[i]))
    THEN Answer(403, "Missing required permissions: " \o join(required_permissions), NoUser)
    ELSE Answer(200, "", u)

\* PermissionChecker.__call__
permission_checker(u, required_permissions, require_all, tbl, role_tbl, assigned) ==
    LET Has(p) == has_permission(u, p, tbl, role_tbl, assigned) IN
    IF tbl[u].is_superuser THEN Answer(200, "", u)
    ELSE IF require_all
    THEN LET missing == first_missing(required_permissions,
                                      {p \in Elements(required_permissions) : Has(p)}) IN
         IF missing # 0
         THEN Answer(403, "Missing required permission: " \o required_permissions[missing],
                     NoUser)
         ELSE Answer(200, "", u)
    ELSE IF ~(\E i \in DOMAIN required_permissions : Has(required_permissions[i]))
    THEN Answer(403, "Missing required permissions: " \o join(required_permissions), NoUser)
    ELSE Answer(200, "", u)

\* RoleChecker.__call__
role_checker(u, required_roles, require_all, tbl, role_tbl, assigned) ==
    LET Has(r) == has_role(u, r, role_tbl, assigned) IN
    IF tbl[u].is_superuser THEN Answer(200, "", u)
    ELSE IF require_all
    THEN LET missing == first_missing(required_roles, {r \in Elements(required_roles) : Has(r)}) IN
         IF missing # 0
         THEN Answer(403, "Missing required role: " \o required_roles[missing], NoUser)
         ELSE Answer(200, "", u)
    ELSE IF ~(\E i \in DOMAIN required_roles : Has(required_roles[i]))
    THEN Answer(403, "Missing required roles: " \o join(required_roles), NoUser)
    ELSE Answer(200, "", u)

GuardCalled(op, u, required, require_all, answer) ==
    [op |-> op, user |-> u, required |-> required, require_all |-> require_all,
     status |-> answer.status, detail |-> answer.detail,
     handler |-> answer.status = 200]

\* a request to an endpoint behind Depends(PermissionChecker(...)); the
\* endpoint function runs only when the dependency returns
PermissionCheck(u, required_permissions, require_all) ==
    /\ last' = GuardCalled("PermissionChecker", u, required_permissions, require_all,
                   permission_checker(u, required_permissions, require_all,
                                      users, roles, user_roles))
    /\ UNCHANGED <<users, now, run, reqs, api_keys, roles, user_roles, salaries>>

\* a request to an endpoint behind Depends(RoleChecker(...))
RoleCheck(u, required_roles, require_all) ==
    /\ last' = GuardCalled("RoleChecker", u, required_roles, require_all,
                   role_checker(u, required_roles, require_all, users, roles, user_roles))
    /\ UNCHANGED <<users, now, run, reqs, api_keys, roles, user_roles, salaries>>

\* AuthService.assign_role_to_user: "True", or the exception raised
assign_role_to_user(user_id, role_name, role_tbl, assigned) ==
    IF user_id \notin Users THEN "ValueError"
    ELSE IF role_name \notin DOMAIN role_tbl THEN "ValueError"
    ELSE IF has_role(user_id, role_name, role_tbl, assigned) THEN "True"
    ELSE IF <<user_id, role_name>> \in assigned THEN "IntegrityError"
    ELSE "True"

\* AuthService.assign_role_to_user(user_id, role_name)
AssignRole(user_id, role_name) ==
    /\ LET result == assign_role_to_user(user_id, role_name, roles, user_roles)
       IN /\ user_roles' = IF result = "True"
                           THEN user_roles \cup {<<user_id, role_name>>}
                           ELSE user_roles
          /\ last' = [op |-> "assign_role_to_user", user |-> user_id,
                      role |-> role_name, result |-> result]
    /\ UNCHANGED <<users, now, run, reqs, api_keys, roles, salaries>>

\* the users get_current_user can return: active ones
GuardUsers == {u \in Users : InitUsers[u].is_active}

RECURSIVE ListsUpTo(_, _)
ListsUpTo(S, n) ==
    IF n = 0 THEN {<<>>}
    ELSE ListsUpTo(S, n - 1)
         \cup {Append(l, x) : l \in {m \in ListsUpTo(S, n - 1) : Len(m) = n - 1}, x \in S}

InitGuard ==
    /\ users = InitUsers
    /\ now = 0
    /\ last = NoCall
    /\ run = NoRun
    /\ reqs = <<>>
    /\ api_keys = InitApiKeys
    /\ \E writer_active \in BOOLEAN : roles = InitRoles(writer_active)
    /\ user_roles = {}
    /\ salaries = InitSalaries

NextGuard ==
    \/ \E u \in GuardUsers, required \in ListsUpTo(Permissions, MaxRequired),
          require_all \in BOOLEAN : PermissionCheck(u, required, require_all)
    \/ \E u \in GuardUsers, required \in ListsUpTo(RoleNames, MaxRequired),
          require_all \in BOOLEAN : RoleCheck(u, required, require_all)
    \/ \E u \in GuardUsers \cup {9}, role_name \in RoleNames \cup {"ghost"} :
          AssignRole(u, role_name)

SpecGuard == InitGuard /\ [][NextGuard]_vars

\* ================================================= guards over live roles
\* Requests are sequential.  A request carries a bearer token to an endpoint
\* behind Depends(PermissionChecker(...)); between requests roles are
\* assigned, updated and deleted through the repositories.

\* BaseRepository.update on a Role: TimeStampMixin.updated_at is set by
\* onupdate when the UPDATE statement is emitted, that is when a field changed
role_update(role, obj_in, t) ==
    LET written == update(role, role, obj_in) IN
    IF written # role THEN [written EXCEPT !.updated_at = t] ELSE role

\* BaseRepository.delete on a Role (no is_deleted column, so a hard delete):
\* the roles table without the row
role_delete(role_tbl, name) == [r \in DOMAIN role_tbl \ {name} |-> role_tbl[r]]

\* the user_roles rows left when the role's row is deleted
role_delete_cascade(assigned, name) == {ur \in assigned : ur[2] # name}

guarded_request_trusting_claims(token, required_permissions, require_all, tbl, role_tbl, assigned, t) ==
    LET answer == get_current_user(token, tbl, t) IN
    IF answer.status # 200 THEN answer
    ELSE permission_checker(answer.user, required_permissions, require_all, tbl, role_tbl,
             {<<answer.user, dict_get(decode_token(token, t).payload, "roles")>>}
                 \cap (Users \X DOMAIN role_tbl))

\* get_current_user, then PermissionChecker.__call__ on the user it returned
guarded_request(token, required_permissions, require_all, tbl, role_tbl, assigned, t) ==
    LET answer == get_current_user(token, tbl, t) IN
    IF answer.status # 200 THEN answer
    ELSE permission_checker(answer.user, required_permissions, require_all,
                            get_current_user_commit(token, tbl, t), role_tbl, assigned)

LiveCalled(op, token, u, required, require_all, answer) ==
    [op |-> op, bearer |-> token, user |-> u, required |-> required,
     require_all |-> require_all, status |-> answer.status, detail |-> answer.detail,
     handler |-> answer.status = 200, at |-> now]

\* a request with a bearer token to a permission-guarded endpoint
GuardedRequest(token, required_permissions, require_all) ==
    /\ users' = get_current_user_commit(token, users, now)
    /\ last' = LiveCalled("guarded_request", token,
                   get_current_user(token, users, now).user,
                   required_permissions, require_all,
                   guarded_request(token, required_permissions, require_all,
                                   users, roles, user_roles, now))
    /\ UNCHANGED <<now, run, reqs, api_keys, roles, user_roles, salaries>>

\* RoleRepository.update(role_id, {"is_active": active})
SetRoleActive(name, active) ==
    /\ roles' = IF name \in DOMAIN roles
                THEN [roles EXCEPT ![name] = role_update(@, [is_active |-> active], now)]
                ELSE roles
    /\ last' = [op |-> "RoleRepository.update", role |-> name,
                found |-> name \in DOMAIN roles]
    /\ UNCHANGED <<users, now, run, reqs, api_keys, user_roles, salaries>>

\* RoleRepository.delete(role_id)
DeleteRole(name) ==
    /\ roles' = IF name \in DOMAIN roles THEN role_delete(roles, name) ELSE roles
    /\ user_roles' = IF name \in DOMAIN roles
                     THEN role_delete_cascade(user_roles, name)
                     ELSE user_roles
    /\ last' = [op |-> "RoleRepository.delete", role |-> name,
                found |-> name \in DOMAIN roles]
    /\ UNCHANGED <<users, now, run, reqs, api_keys, salaries>>

\* what the requests and role changes are drawn from
LiveUser == 1
LiveRoles == {"reader", "writer"}
LiveTokens(t) ==
    {JwtBearer(create_access_token(PyStr(InitUsers[LiveUser].username), c, i)) :
        c \in {EmptyDict, [k \in {"roles"} |-> "reader"]}, i \in IssueTimes(t)}

NextLive ==
    \/ \E token \in LiveTokens(now), required \in ListsUpTo({"read:x", "write:x"}, 1),
          require_all \in BOOLEAN : GuardedRequest(token, required, require_all)
    \/ \E name \in LiveRoles : AssignRole(LiveUser, name)
    \/ \E active \in BOOLEAN : SetRoleActive("reader", active)
    \/ DeleteRole("writer")
    \/ Tick

SpecLive == Init /\ [][NextLive]_vars

\* ================================================================ refresh
\* Requests are sequential.  Refresh tokens stay valid for days, so a token
\* issued at any time can be presented after the user's row has changed.

\* UserRepository.update(user_id, {"is_active": False})
DeactivateUser(u) ==
    /\ users' = [users EXCEPT ![u] = update(@, @, [is_active |-> FALSE])]
    /\ last' = [op |-> "UserRepository.update", user |-> u]
    /\ UNCHANGED <<now, run, reqs, api_keys, roles, user_roles, salaries>>

\* the ids refresh tokens are issued for: the users of the table and an id
\* whose row is gone
RefreshSubjects == {Digit[u] : u \in Users} \cup {"4"}

RefreshBearers(t) ==
    {JwtBearer(JWTHandler_create_refresh_token([k \in {"sub"} |-> id], i)) :
        id \in RefreshSubjects, i \in IssueTimes(t)}
    \cup {JwtBearer(JWTHandler_create_access_token([k \in {"sub"} |-> "1"], t)),
          OpaqueBearer("garbage")}

NextRefresh ==
    \/ \E token \in RefreshBearers(now) : RefreshToken(token)
    \/ \E u \in {1, 3} : DeactivateUser(u)
    \/ Tick

SpecRefresh == Init /\ [][NextRefresh]_vars

\* ====================================================== password policy
\* The characters of the passwords used as inputs
KnownPasswords == {"Secret123", "wrong", "Newpass456", "newpassword123"}

Chars(password) ==
    CASE password = "Secret123" ->
           <<"S", "e", "c", "r", "e", "t", "1", "2", "3">>
      [] password = "wrong" ->
           <<"w", "r", "o", "n", "g">>
      [] password = "Newpass456" ->
           <<"N", "e", "w", "p", "a", "s", "s", "4", "5", "6">>
      [] password = "newpassword123" ->
           <<"n", "e", "w", "p", "a", "s", "s", "w", "o", "r", "d", "1", "2", "3">>

\* str.isupper, str.islower, str.isdigit on one ASCII character
isupper(c) ==
    c \in {"A", "B", "C", "D", "E", "F", "G", "H", "I", "J", "K", "L", "M",
     "N", "O", "P", "Q", "R", "S", "T", "U", "V", "W", "X", "Y", "Z"}

islower(c) ==
    c \in {"a", "b", "c", "d", "e", "f", "g", "h", "i", "j", "k", "l", "m",
     "n", "o", "p", "q", "r", "s", "t", "u", "v", "w", "x", "y", "z"}

isdigit(c) == c \in {"0", "1", "2", "3", "4", "5", "6", "7", "8", "9"}

\* AuthService._validate_password_strength: the ValueError's message, "" when
\* none is raised
validate_password_strength(password) ==
    LET chars == Chars(password) IN
    IF Len(chars) < 8 THEN "Password must be at least 8 characters long"
    ELSE IF ~\E i \in DOMAIN chars : isupper(chars[i])
    THEN "Password must contain at least one uppercase letter"
    ELSE IF ~\E i \in DOMAIN chars : islower(chars[i])
    THEN "Password must contain at least one lowercase letter"
    ELSE IF ~\E i \in DOMAIN chars : isdigit(chars[i])
    THEN "Password must contain at least one number"
    ELSE ""

\* PasswordHasher.get_password_hash
PasswordHasher_get_password_hash(password, salt) == hash_password(password, salt)

\* ========================================================== registration
\* Register calls run concurrently, each in a session of its own; a call
\* takes one step per await that reads or writes committed data.

\* UserRepository.username_exists
username_exists(tbl, username) == \E u \in DOMAIN tbl : tbl[u].username = username

\* UserRepository.email_exists
email_exists(tbl, email) == \E u \in DOMAIN tbl : tbl[u].email = email

\* the id the users table's autoincrement gives the next row
next_id(tbl) == (CHOOSE u \in DOMAIN tbl : \A v \in DOMAIN tbl : v <= u) + 1

NewRegistration ==
    [pc |-> "start", op |-> "", username |-> "", email |-> "", password |-> "",
     result |-> "", status |-> 0, detail |-> "", created |-> NoUser,
     dup_username |-> FALSE, dup_email |-> FALSE]

\* a call that ends without a row: what the caller gets, and which of its
\* username and email the table held at that moment
RegistrationFailed(req, result, status, detail) ==
    [req EXCEPT !.pc = "done", !.result = result, !.status = status, !.detail = detail,
                !.dup_username = username_exists(users, req.username),
                !.dup_email = email_exists(users, req.email)]

\* AuthService.register_user (op "register_user") and POST /auth/register
\* (op "register") up to the username query; the endpoint's body is
\* validated against UserRegister first
RegCheckUsername(r, op, username, email, password) ==
    /\ reqs[r].pc = "start"
    /\ LET req == [reqs[r] EXCEPT !.op = op, !.username = username, !.email = email,
                                  !.password = password]
       IN reqs' = [reqs EXCEPT ![r] =
             IF op = "register" /\ Len(Chars(password)) < 8
             THEN [req EXCEPT !.pc = "done", !.result = "RequestValidationError",
                              !.status = 422]
             ELSE IF username_exists(users, username)
             THEN IF op = "register_user"
                  THEN RegistrationFailed(req, "ValueError", 0,
                                          "Username '" \o username \o "' already exists")
                  ELSE RegistrationFailed(req, "HTTPException", 400,
                                          "Username already exists")
             ELSE [req EXCEPT !.pc = "check_email"]]
    /\ UNCHANGED <<users, now, last, run, api_keys, roles, user_roles, salaries>>

\* the email query, and in register_user the password policy
RegCheckEmail(r) ==
    /\ reqs[r].pc = "check_email"
    /\ LET req == reqs[r] IN
       reqs' = [reqs EXCEPT ![r] =
             IF email_exists(users, req.email)
             THEN IF req.op = "register_user"
                  THEN RegistrationFailed(req, "ValueError", 0,
                                          "Email '" \o req.email \o "' already registered")
                  ELSE RegistrationFailed(req, "HTTPException", 400,
                                          "Email already registered")
             ELSE IF req.op = "register_user" /\ validate_password_strength(req.password) # ""
             THEN RegistrationFailed(req, "ValueError", 0,
                                     validate_password_strength(req.password))
             ELSE [req EXCEPT !.pc = "insert"]]
    /\ UNCHANGED <<users, now, last, run, api_keys, roles, user_roles, salaries>>

\* the INSERT and its commit: the unique constraints on users.username and
\* users.email reject a row that repeats either; register_user turns the
\* IntegrityError into a ValueError, the endpoint lets it through
RegInsert(r, salt) ==
    /\ reqs[r].pc = "insert"
    /\ LET req == reqs[r]
           id == next_id(users)
       IN IF username_exists(users, req.username) \/ email_exists(users, req.email)
          THEN /\ reqs' = [reqs EXCEPT ![r] =
                    IF req.op = "register_user"
                    THEN RegistrationFailed(req, "ValueError", 0,
                           "Failed to register user due to data constraint violation")
                    ELSE RegistrationFailed(req, "IntegrityError", 500, "")]
               /\ UNCHANGED users
          ELSE /\ users' = users @@
                    (id :> UserRow(req.username, req.email, req.password, salt, TRUE, FALSE))
               /\ reqs' = [reqs EXCEPT ![r] =
                    [req EXCEPT !.pc = "done", !.created = id,
                                !.result = IF req.op = "register_user" THEN "dict"
                                           ELSE "UserResponse",
                                !.status = IF req.op = "register_user" THEN 0 ELSE 201]]
    /\ UNCHANGED <<now, last, run, api_keys, roles, user_roles, salaries>>

InitRegister ==
    /\ users = InitUsers
    /\ now = 0
    /\ last = NoCall
    /\ run = NoRun
    /\ reqs = [r \in ReqIds |-> NewRegistration]
    /\ api_keys = InitApiKeys
    /\ roles = InitRoles(TRUE)
    /\ user_roles = {}
    /\ salaries = InitSalaries

NextRegister ==
    \/ \E r \in ReqIds, op \in {"register_user", "register"},
          username \in {"alice", "dave"}, email \in {"alice@x.com", "dave@x.com"},
          password \in {"Secret123", "wrong"} :
          RegCheckUsername(r, op, username, email, password)
    \/ \E r \in ReqIds : RegCheckEmail(r)
    \/ \E r \in ReqIds : RegInsert(r, "s1")

SpecRegister == InitRegister /\ [][NextRegister]_vars

\* ======================================================= password change
\* Calls are sequential.

\* AuthService.update_user_password: the committed row and what the caller
\* gets; salt is the salt bcrypt draws for the new hash
update_user_password(user_id, current_password, new_password, salt, tbl) ==
    IF user_id \notin DOMAIN tbl
    THEN [row |-> NoRow, result |-> "ValueError", detail |-> "User not found"]
    ELSE IF ~verify_password(current_password, tbl[user_id].password_hash)
    THEN [row |-> tbl[user_id], result |-> "ValueError",
          detail |-> "Current password is incorrect"]
    ELSE IF validate_password_strength(new_password) # ""
    THEN [row |-> tbl[user_id], result |-> "ValueError",
          detail |-> validate_password_strength(new_password)]
    ELSE IF current_password = new_password
    THEN [row |-> tbl[user_id], result |-> "ValueError",
          detail |-> "New password must be different from current password"]
    ELSE [row |-> update(tbl[user_id], tbl[user_id],
                         [password_hash |-> hash_password(new_password, salt)]),
          result |-> "True", detail |-> ""]

\* current_user[key] where current_user is the User object get_current_user
\* returned: User defines no __getitem__, so the subscript raises TypeError
user_subscript(current_user, key) == [raised |-> "TypeError", value |-> NoUser]

\* POST /auth/change-password for the user get_current_user returned: the
\* body is validated against PasswordChange, then the handler runs
change_password(current_user, old_password, new_password, salt, tbl) ==
    LET id == user_subscript(current_user, "id") IN
    IF Len(Chars(new_password)) < 8
    THEN [row |-> tbl[current_user], status |-> 422, detail |-> "RequestValidationError"]
    ELSE IF id.raised # ""
    THEN [row |-> tbl[current_user], status |-> 500, detail |-> id.raised]
    ELSE IF id.value \notin DOMAIN tbl
    THEN [row |-> tbl[current_user], status |-> 404, detail |-> "User not found"]
    ELSE IF ~PasswordHasher_verify_password(old_password, tbl[id.value].password_hash)
    THEN [row |-> tbl[id.value], status |-> 400, detail |-> "Incorrect password"]
    ELSE [row |-> [tbl[id.value] EXCEPT
                     !.password_hash = PasswordHasher_get_password_hash(new_password, salt)],
          status |-> 200, detail |-> "Password changed successfully"]

PasswordCalled(op, u, old, new, result, status, detail) ==
    [op |-> op, user |-> u, old |-> old, new |-> new, result |-> result,
     status |-> status, detail |-> detail,
     before |-> IF u \in DOMAIN users THEN users[u] ELSE NoRow, at |-> now]

\* AuthService.update_user_password(user_id, current_password, new_password)
UpdateUserPassword(user_id, current_password, new_password, salt) ==
    /\ LET out == update_user_password(user_id, current_password, new_password, salt, users)
       IN /\ users' = IF user_id \in DOMAIN users
                      THEN [users EXCEPT ![user_id] = out.row]
                      ELSE users
          /\ last' = PasswordCalled("update_user_password", user_id, current_password,
                                    new_password, out.result, 0, out.detail)
    /\ UNCHANGED <<now, run, reqs, api_keys, roles, user_roles, salaries>>

\* POST /auth/change-password with the access token of user u
ChangePassword(u, old_password, new_password, salt) ==
    /\ LET out == change_password(u, old_password, new_password, salt, users)
       IN /\ users' = [users EXCEPT ![u] = out.row]
          /\ last' = PasswordCalled("change_password", u, old_password, new_password,
                                    IF out.status = 200 THEN "dict" ELSE "HTTPException",
                                    out.status, out.detail)
    /\ UNCHANGED <<now, run, reqs, api_keys, roles, user_roles, salaries>>

NextPassword ==
    \/ \E u \in {1, 3, 9}, current_password, new_password \in KnownPasswords,
          salt \in Salts :
          UpdateUserPassword(u, current_password, new_password, salt)
    \/ \E u \in {1, 3}, old_password, new_password \in KnownPasswords, salt \in Salts :
          ChangePassword(u, old_password, new_password, salt)

SpecPassword == Init /\ [][NextPassword]_vars

\* =============================================================== API keys
\* Requests are sequential.

\* the keys secrets.token_urlsafe can return
NewKeys == {"ak_new1", "ak_new2"}

\* the minutes in expires_in_days days
MinutesPerDay == 1440

\* POST /auth/api-keys for the user get_current_user returned: the api_keys
\* table after the call and the response; api_key is the generated key
create_api_key(current_user, expires_in_days, api_key, keys, t) ==
    LET key_hash == sha256_hexdigest(api_key)
        expires_at == IF expires_in_days # 0 THEN t + expires_in_days * MinutesPerDay
                      ELSE NoTime
        id == user_subscript(current_user, "id")
    IN IF id.raised # ""
       THEN [keys |-> keys, status |-> 500, detail |-> id.raised, key |-> ""]
       ELSE [keys |-> Append(keys, [key_hash |-> key_hash, user_id |-> id.value,
                                    is_active |-> TRUE, expires_at |-> expires_at,
                                    last_used_at |-> NoTime]),
             status |-> 200, detail |-> "", key |-> api_key]

KeyCalled(op, bearer, u, status, detail, key) ==
    [op |-> op, bearer |-> bearer, user |-> u, status |-> status, detail |-> detail,
     key |-> key, at |-> now]

\* POST /auth/api-keys with the access token of user u
CreateApiKey(u, expires_in_days, api_key) ==
    /\ LET out == create_api_key(u, expires_in_days, api_key, api_keys, now)
       IN /\ api_keys' = out.keys
          /\ last' = KeyCalled("create_api_key", NoBearer, u, out.status, out.detail, out.key)
    /\ UNCHANGED <<users, now, run, reqs, roles, user_roles, salaries>>

\* a request to an endpoint that depends on get_api_key_user
ApiKeyRequest(credentials) ==
    /\ api_keys' = get_api_key_user_commit(credentials, api_keys, now)
    /\ LET answer == get_api_key_user(credentials, api_keys, users, now)
       IN last' = KeyCalled("get_api_key_user", credentials, answer.user,
                            answer.status, answer.detail, "")
    /\ UNCHANGED <<users, now, run, reqs, roles, user_roles, salaries>>

\* the digests handed to verify: hashes the hasher produced, a SHA-256 hex
\* digest, and text that is no digest
Digests ==
    {hash_password(secret, salt) : secret \in {"Secret123", "ak_alice"}, salt \in Salts}
    \cup {sha256_hexdigest("ak_alice"), [scheme |-> "", salt |-> "", digest |-> <<"", "">>]}

\* verify_password(plain_password, hashed_password) and
\* verify_api_key(plain_key, hashed_key), called directly
Verify(op, plaintext, digest) ==
    /\ last' = [op |-> op, plaintext |-> plaintext, digest |-> digest,
                result |-> pwd_context_verify(plaintext, digest)]
    /\ UNCHANGED <<users, now, run, reqs, api_keys, roles, user_roles, salaries>>

\* the api_keys table at the start: alice's key, the key of the inactive bob,
\* an expired key of alice, and possibly a row whose key_hash is not a bcrypt
\* hash
InitKeyRows(malformed) ==
    InitApiKeys
    \o <<ApiKeyRow("ak_old", "s1", 1, TRUE, TickMinutes \div 2)>>
    \o IF malformed
       THEN <<[ApiKeyRow("ak_odd", "s1", 1, TRUE, NoTime) EXCEPT
                 !.key_hash = sha256_hexdigest("ak_odd")]>>
       ELSE <<>>

InitKeys ==
    /\ users = InitUsers
    /\ now = 0
    /\ last = NoCall
    /\ run = NoRun
    /\ reqs = <<>>
    /\ \E malformed \in BOOLEAN : api_keys = InitKeyRows(malformed)
    /\ roles = InitRoles(TRUE)
    /\ user_roles = {}
    /\ salaries = InitSalaries

KeyBearers ==
    {OpaqueBearer(text) : text \in {"ak_alice", "ak_bob", "ak_old", "ak_odd", "garbage"}
                                   \cup NewKeys}
    \cup {JwtBearer(create_access_token(PyStr("alice"), EmptyDict, 0)), NoBearer}

NextKeys ==
    \/ \E u \in GuardUsers, expires_in_days \in {0, 1}, api_key \in NewKeys :
          CreateApiKey(u, expires_in_days, api_key)
    \/ \E credentials \in KeyBearers : ApiKeyRequest(credentials)
    \/ \E op \in {"verify_password", "verify_api_key"},
          plaintext \in {"Secret123", "ak_alice"}, digest \in Digests :
          Verify(op, plaintext, digest)
    \/ \E u \in {1} : DeactivateUser(u)
    \/ Tick

SpecKeys == InitKeys /\ [][NextKeys]_vars

\* ============================================================ token codec
\* create_access_token, create_refresh_token and decode_token called directly.

TokenCalled(op, subject, additional_claims, bearer, ok, payload, raised) ==
    [op |-> op, subject |-> subject, additional_claims |-> additional_claims,
     bearer |-> bearer, ok |-> ok, payload |-> payload, raised |-> raised, at |-> now]

CreateAccessToken(subject, additional_claims) ==
    /\ LET token == create_access_token(subject, additional_claims, now)
       IN last' = TokenCalled("create_access_token", subject, additional_claims,
                              JwtBearer(token), TRUE, token.payload,
                              [status |-> 0, detail |-> ""])
    /\ UNCHANGED <<users, now, run, reqs, api_keys, roles, user_roles, salaries>>

CreateRefreshToken(subject) ==
    /\ LET token == create_refresh_token(subject, now)
       IN last' = TokenCalled("create_refresh_token", subject, EmptyDict,
                              JwtBearer(token), TRUE, token.payload,
                              [status |-> 0, detail |-> ""])
    /\ UNCHANGED <<users, now, run, reqs, api_keys, roles, user_roles, salaries>>

DecodeToken(bearer) ==
    /\ LET out == decode_token(bearer, now)
       IN last' = TokenCalled("decode_token", PyStr(""), EmptyDict, bearer, out.ok,
                              out.payload, decode_token_raises(bearer, now))
    /\ UNCHANGED <<users, now, run, reqs, api_keys, roles, user_roles, salaries>>

\* additional_claims: none, a new claim, and claims named like the ones
\* create_access_token sets itself
CodecClaimSets ==
    ClaimSets \cup {[k \in {"type"} |-> "refresh"], [k \in {"sub"} |-> "bob"],
                    [k \in {"exp"} |-> MaxTime + REFRESH_TOKEN_EXPIRATION]}

\* the strings handed to decode_token: tokens issued at minute 0 and now,
\* tokens signed with another key or altered after signing, and text that is
\* no JWT
CodecBearers(t) ==
    {JwtBearer(tok) : tok \in IssuedTokens(t) \cup ForgedTokens(t)}
    \cup {OpaqueBearer("invalid.token.here")}

NextCodec ==
    \/ \E subject \in Subjects, additional_claims \in CodecClaimSets :
          CreateAccessToken(subject, additional_claims)
    \/ \E subject \in Subjects : CreateRefreshToken(subject)
    \/ \E bearer \in CodecBearers(now) : DecodeToken(bearer)
    \/ Tick

SpecCodec == Init /\ [][NextCodec]_vars

\* ====================================================== gateway and lock
\* Requests are sequential: alice's account is locked by failed
\* authenticate_user calls and unlocked by an administrator or by time, while
\* requests bearing tokens issued earlier reach get_current_user.

AdmitUser == 1

AdmitBearers(t) ==
    {JwtBearer(create_access_token(PyStr(s), EmptyDict, i)) :
         s \in {"alice", "bob", "nobody"}, i \in IssueTimes(t)}
    \cup {JwtBearer(create_refresh_token(PyStr("alice"), t))}

NextAdmit ==
    \/ \E password \in Passwords : Authenticate(users[AdmitUser].username, password)
    \/ UnlockUserAccount(AdmitUser)
    \/ \E token \in AdmitBearers(now) : GetCurrentUser(token)
    \/ DeactivateUser(AdmitUser)
    \/ Tick

SpecAdmit == Init /\ [][NextAdmit]_vars

\* =============================================================== salaries
\* NumReqs callers run SalaryService.adjust_salary for the same employee, each
\* in a session of its own and one call after another per caller.  A
\* coroutine takes one step per await that reads or writes committed data.

MaxSalaryRows == 4

NewSalaryReq == [pc |-> "start", new_salary |-> 0, from_date |-> 0, current |-> 0,
                 result |-> ""]

\* SalaryRepository.get_current_salary: the ids of the rows the query returns
current_salaries(tbl, emp_no) ==
    {i \in DOMAIN tbl : tbl[i].emp_no = emp_no /\ tbl[i].to_date = EndOfTime}

\* chk_salaries_dates
chk_salaries_dates(row) == row.to_date >= row.from_date

\* uq_salaries_active: no row of tbl has the emp_no and from_date of row
uq_salaries_active(tbl, row) ==
    \A i \in DOMAIN tbl : ~(tbl[i].emp_no = row.emp_no /\ tbl[i].from_date = row.from_date)

AdjustCalled(r, result) ==
    [op |-> "adjust_salary", req |-> r, result |-> result,
     new_salary |-> reqs[r].new_salary, from_date |-> reqs[r].from_date]

\* the business rules and get_current_salary
AdjustStart(r, new_salary, from_date) ==
    /\ reqs[r].pc = "start"
    /\ Len(salaries) < MaxSalaryRows
    /\ LET found == current_salaries(salaries, EmpNo)
           result == IF new_salary <= 0 THEN "ValueError"
                     ELSE IF Cardinality(found) > 1 THEN "MultipleResultsFound"
                     ELSE IF found = {} THEN "ValueError"
                     ELSE IF from_date < Today THEN "ValueError"
                     ELSE ""
       IN /\ reqs' = [reqs EXCEPT ![r] =
                        [pc |-> IF result = "" THEN "close" ELSE "raised",
                         new_salary |-> new_salary, from_date |-> from_date,
                         current |-> IF result = "" THEN CHOOSE i \in found : TRUE ELSE 0,
                         result |-> result]]
          /\ last' = IF result = "" THEN last
                     ELSE [op |-> "adjust_salary", req |-> r, result |-> result,
                           new_salary |-> new_salary, from_date |-> from_date]
    /\ UNCHANGED <<users, now, run, api_keys, roles, user_roles, salaries>>

\* salary_repo.update(current.id, {"to_date": from_date}) and its commit
AdjustClose(r) ==
    /\ reqs[r].pc = "close"
    /\ LET closed == [salaries[reqs[r].current] EXCEPT !.to_date = reqs[r].from_date]
       IN IF chk_salaries_dates(closed)
          THEN /\ salaries' = [salaries EXCEPT ![reqs[r].current] = closed]
               /\ reqs' = [reqs EXCEPT ![r].pc = "create"]
               /\ last' = last
          ELSE /\ salaries' = salaries
               /\ reqs' = [reqs EXCEPT ![r].pc = "raised", ![r].result = "ValueError"]
               /\ last' = AdjustCalled(r, "ValueError")
    /\ UNCHANGED <<users, now, run, api_keys, roles, user_roles>>

\* salary_repo.create(new_salary_data) and its commit, then the return
AdjustCreate(r) ==
    /\ reqs[r].pc = "create"
    /\ LET row == [emp_no |-> EmpNo, salary |-> reqs[r].new_salary,
                   from_date |-> reqs[r].from_date, to_date |-> EndOfTime]
       IN IF uq_salaries_active(salaries, row)
          THEN /\ salaries' = Append(salaries, row)
               /\ reqs' = [reqs EXCEPT ![r].pc = "returned", ![r].result = "dict"]
               /\ last' = AdjustCalled(r, "dict")
          ELSE /\ salaries' = salaries
               /\ reqs' = [reqs EXCEPT ![r].pc = "raised", ![r].result = "ValueError"]
               /\ last' = AdjustCalled(r, "ValueError")
    /\ UNCHANGED <<users, now, run, api_keys, roles, user_roles>>

\* the caller goes on to its next call
AdjustNext(r) ==
    /\ reqs[r].pc \in {"returned", "raised"}
    /\ reqs' = [reqs EXCEPT ![r] = NewSalaryReq]
    /\ UNCHANGED <<users, now, last, run, api_keys, roles, user_roles, salaries>>

InitSalary ==
    /\ users = InitUsers
    /\ now = 0
    /\ last = NoCall
    /\ run = NoRun
    /\ reqs = [r \in ReqIds |-> NewSalaryReq]
    /\ api_keys = InitApiKeys
    /\ roles = InitRoles(TRUE)
    /\ user_roles = {}
    /\ salaries = InitSalaries

NextSalary ==
    \/ \E r \in ReqIds, new_salary \in {0, 60000}, from_date \in {Today - 1, Today, Today + 1} :
          AdjustStart(r, new_salary, from_date)
    \/ \E r \in ReqIds : AdjustClose(r)
    \/ \E r \in ReqIds : AdjustCreate(r)
    \/ \E r \in ReqIds : AdjustNext(r)

SpecSalary == InitSalary /\ [][NextSalary]_vars

\* ============================================================ claims

\* what the caller of authenticate_user / login was told
AccountLocked(call) ==
    \/ call.op = "authenticate_user" /\ call.result = "ValueError"
    \/ call.op = "login" /\ call.detail = "Account is locked until"

InvalidCredentials(call) ==
    \/ call.op = "authenticate_user" /\ call.result = "None"
    \/ call.op = "login" /\ call.detail = "Incorrect username or password"

\* the last call was a wrong-password call on an existing user
WrongPasswordCall(op) ==
    /\ last.op = op
    /\ last.user # NoUser
    /\ ~verify_password(last.password, last.before.password_hash)

\* C1: for an active user starting at 0 attempts and unlocked, k <= 4
\* consecutive wrong-password authenticate_user calls leave the account
\* unlocked with failed_login_attempts = k, and the 5th call sets
\* locked_until = now + LOCKOUT_DURATION.
C1_LockoutThreshold ==
    (run.op = "authenticate_user" /\ users[run.user].is_active) =>
        /\ run.n < MAX_FAILED_ATTEMPTS =>
              /\ users[run.user].failed_login_attempts = run.n
              /\ users[run.user].locked_until = NoTime
        /\ run.n = MAX_FAILED_ATTEMPTS =>
              users[run.user].locked_until = last.at + LOCKOUT_DURATION_MINUTES

\* C2: while locked_until is in the future every authentication call for the
\* user is rejected with AccountLocked, whatever the password, without
\* verifying the password and without changing attempts or locked_until.
C2_LockedRejectedUnverified ==
    (/\ last.op \in {"authenticate_user", "login"}
     /\ last.user # NoUser
     /\ is_locked(last.before, last.at)) =>
        /\ AccountLocked(last)
        /\ ~last.verified
        /\ users[last.user].failed_login_attempts = last.before.failed_login_attempts
        /\ users[last.user].locked_until = last.before.locked_until

\* C3: after a lock has lapsed the account counts from zero again: one
\* wrong-password authenticate_user leaves it unlocked with 1 attempt.
C3_LapsedLockCountsFromZero ==
    (/\ WrongPasswordCall("authenticate_user")
     /\ last.before.is_active
     /\ last.before.locked_until # NoTime
     /\ last.before.locked_until <= last.at) =>
        /\ users[last.user].failed_login_attempts = 1
        /\ ~is_locked(users[last.user], last.at)

\* C5: the wrong-password call that is the 5th consecutive failure fails with
\* AccountLocked, every earlier failure of the run with InvalidCredentials.
C5_ThresholdCallSaysLocked ==
    (run.op = "authenticate_user" /\ users[run.user].is_active) =>
        /\ run.n < MAX_FAILED_ATTEMPTS => InvalidCredentials(last)
        /\ run.n = MAX_FAILED_ATTEMPTS => AccountLocked(last)

\* C6: each of the first five consecutive wrong-password login requests of an
\* active user is answered 401, the sixth 403 with a detail about the lock.
C6_SixthLoginForbidden ==
    (run.op = "login" /\ users[run.user].is_active) =>
        /\ run.n <= MAX_FAILED_ATTEMPTS => last.status = 401
        /\ run.n = MAX_FAILED_ATTEMPTS + 1 =>
              last.status = 403 /\ last.detail = "Account is locked until"

\* C7: every successful authenticate_user leaves the user with
\* failed_login_attempts = 0 and locked_until cleared.
C7_SuccessResets ==
    (last.op = "authenticate_user" /\ last.result = "dict") =>
        /\ users[last.user].failed_login_attempts = 0
        /\ users[last.user].locked_until = NoTime

\* a correct password after a lapsed lock, with failures on the counter
C7_Witness ==
    /\ last.op = "authenticate_user" /\ last.result = "dict"
    /\ last.before.locked_until # NoTime
    /\ last.before.failed_login_attempts > 0

\* every concurrent call has completed
AllReturned == \A r \in ReqIds : reqs[r].pc \in {"returned", "raised"}

\* C4: no increment is lost among concurrent wrong-password calls for one
\* unlocked user whose counter was n: when all k calls have completed the
\* stored failed_login_attempts is n + k, or the account is locked.
C4_NoLostIncrement ==
    (/\ run.op = "concurrent"
     /\ AllReturned
     /\ \A r \in ReqIds : reqs[r].counted) =>
        \/ users[ConcUser].failed_login_attempts = run.n + NumReqs
        \/ is_locked(users[ConcUser], now)

\* the last request presented a validly signed, unexpired token of this kind
PresentedValid(kind) ==
    /\ last.bearer.kind = "jwt"
    /\ jwt_valid(last.bearer.token, last.at)
    /\ dict_get(last.bearer.token.payload, "type") = kind

\* C8: a validly signed, unexpired refresh token is never accepted by
\* get_current_user, and a validly signed, unexpired access token is never
\* accepted by the refresh operation; the call fails and yields no identity
\* and no new tokens.
C8_TokenKindIsolation ==
    /\ (last.op = "get_current_user" /\ PresentedValid("refresh")) =>
          last.status = 401 /\ last.user = NoUser
    /\ (last.op = "refresh_token" /\ PresentedValid("access")) =>
          last.status = 401 /\ last.access = NoToken /\ last.refresh = NoToken

\* a valid refresh token of the active, unlocked user alice was presented to
\* get_current_user
C8_Witness ==
    /\ last.op = "get_current_user" /\ PresentedValid("refresh")
    /\ active_user_by_username(users, last.bearer.token.payload["sub"]) = 1
    /\ ~is_locked(users[1], last.at)
    /\ last.status = 401

\* the token channel of the last gateway request yields a user
TokenYieldsUser == get_current_user(last.bearer, users, last.at).status = 200

\* C9: get_current_user_or_api_key resolves a request presenting a valid
\* access token of an active, unlocked user to that user, whatever API-key
\* credential comes with it, and fails with 401 only when neither channel
\* yields a user.
C9_TokenPreferred ==
    last.op = "get_current_user_or_api_key" =>
        /\ TokenYieldsUser =>
              /\ last.status = 200
              /\ last.user = get_current_user(last.bearer, users, last.at).user
        /\ last.status = 401 =>
              /\ ~TokenYieldsUser
              /\ get_api_key_user(last.bearer, api_keys, users, last.at).user = NoUser

\* the last guard call was made for a user who is not a superuser
GuardedNonSuperuser(op) == last.op = op /\ ~users[last.user].is_superuser

\* what the guard's parameters ask of the user, given which items he holds
Required(held) ==
    IF last.require_all
    THEN \A x \in Elements(last.required) : x \in held
    ELSE \E x \in Elements(last.required) : x \in held

\* C10: the permission and role guards admit a non-superuser iff he holds
\* every listed item (require_all) or at least one (otherwise); in every
\* other case the request ends 403 and the handler does not run.
C10_GuardsFailClosed ==
    /\ GuardedNonSuperuser("PermissionChecker") =>
          /\ last.status = 200 <=>
                Required({p \in Permissions :
                            has_permission(last.user, p, users, roles, user_roles)})
          /\ last.status # 200 => last.status = 403 /\ ~last.handler
    /\ GuardedNonSuperuser("RoleChecker") =>
          /\ last.status = 200 <=>
                Required({r \in RoleNames : has_role(last.user, r, roles, user_roles)})
          /\ last.status # 200 => last.status = 403 /\ ~last.handler

\* require_all with one listed permission held and another missing: denied
C10_Witness ==
    /\ GuardedNonSuperuser("PermissionChecker")
    /\ last.require_all
    /\ \E p, q \in Elements(last.required) :
          /\ has_permission(last.user, p, users, roles, user_roles)
          /\ ~has_permission(last.user, q, users, roles, user_roles)
    /\ last.status = 403 /\ ~last.handler

\* the non-superuser u is assigned an active role that lists the permission
HoldsActiveRoleListing(u, permission) ==
    /\ ~users[u].is_superuser
    /\ \E name \in RoleNames :
          /\ <<u, name>> \in user_roles
          /\ roles[name].is_active
          /\ \E i \in DOMAIN roles[name].permissions : roles[name].permissions[i] = permission

\* C11: a non-superuser holding an active role whose permissions contain "*"
\* passes has_permission for every permission string.
C11_WildcardGrantsAll ==
    \A u \in GuardUsers :
        HoldsActiveRoleListing(u, "*") =>
            \A p \in Permissions : has_permission(u, p, users, roles, user_roles)

\* C12: a superuser with no assigned role gets true from has_permission for
\* every permission and true from has_role for every role name.
C12_SuperuserPassesAll ==
    \A u \in GuardUsers :
        (users[u].is_superuser /\ user_role_names(u, user_roles) = {}) =>
            /\ \A p \in Permissions : has_permission(u, p, users, roles, user_roles)
            /\ \A r \in RoleNames : has_role(u, r, roles, user_roles)

\* C13: the permission guard asked for one permission p admits a
\* non-superuser iff a role assigned to him is active and lists p; a
\* permission listed only by inactive assigned roles is refused.
C13_ActiveRolesOnly ==
    (GuardedNonSuperuser("PermissionChecker") /\ Len(last.required) = 1) =>
        (last.status = 200 <=> HoldsActiveRoleListing(last.user, last.required[1]))

\* the permission is listed by an assigned role, all such roles are inactive,
\* and the guard refused it
C13_Witness ==
    /\ GuardedNonSuperuser("PermissionChecker")
    /\ Len(last.required) = 1
    /\ \E name \in user_role_names(last.user, user_roles) :
          ~roles[name].is_active /\ last.required[1] \in Elements(roles[name].permissions)
    /\ ~HoldsActiveRoleListing(last.user, last.required[1])
    /\ last.status = 403

\* C14: a guarded request whose token resolves to a non-superuser is admitted
\* iff the roles assigned and active at the time of the request grant what
\* the guard requires, whatever the token says and whenever it was issued.
C14_LiveRoleState ==
    (/\ last.op = "guarded_request"
     /\ last.user # NoUser
     /\ ~users[last.user].is_superuser) =>
        (last.status = 200 <=>
            Required({p \in Permissions : HoldsActiveRoleListing(last.user, p)}))

\* a token issued before the reader role was deactivated, naming that role,
\* is refused the permission that only the reader role granted
C14_Witness ==
    /\ last.op = "guarded_request"
    /\ last.user = LiveUser
    /\ <<LiveUser, "reader">> \in user_roles
    /\ ~roles["reader"].is_active
    /\ last.bearer.token.payload["iat"] < roles["reader"].updated_at
    /\ dict_get(last.bearer.token.payload, "roles") = "reader"
    /\ last.required = <<"read:x">>
    /\ ~HoldsActiveRoleListing(LiveUser, "read:x")
    /\ last.status = 403 /\ ~last.handler

\* the user a refresh token's subject names, NoUser when no row has that id
SubjectOfPresented ==
    IF \E u \in Users : Digit[u] = dict_get(last.bearer.token.payload, "sub")
    THEN CHOOSE u \in Users : Digit[u] = dict_get(last.bearer.token.payload, "sub")
    ELSE NoUser

C16_TokenPair ==
    /\ (last.op = "authenticate_user" /\ last.result = "dict") =>
          last.access # NoToken /\ last.refresh # NoToken
    /\ (last.op = "login" /\ last.status = 200) =>
          last.access # NoToken /\ last.refresh # NoToken

\* the last call was an authentication of an existing user who was inactive
\* and not locked
InactiveUserCall(op) ==
    /\ last.op = op
    /\ last.user # NoUser
    /\ ~last.before.is_active
    /\ ~is_locked(last.before, last.at)

\* C17: authenticate for an existing, inactive, unlocked user fails with an
\* outcome distinct from InvalidCredentials (403 at the endpoint), issues no
\* token and leaves failed_login_attempts and locked_until unchanged.
C17_InactiveIsDistinct ==
    \A op \in {"authenticate_user", "login"} :
        InactiveUserCall(op) =>
            /\ ~InvalidCredentials(last)
            /\ last.op = "login" => last.status = 403
            /\ last.access = NoToken /\ last.refresh = NoToken
            /\ users[last.user].failed_login_attempts = last.before.failed_login_attempts
            /\ users[last.user].locked_until = last.before.locked_until

\* what the caller of an authentication call gets to see
Outcome(call) == <<call.result, call.status, call.detail, call.access, call.refresh>>

\* the last call named an identifier that matches no user
UnknownIdentifierCall(op) == last.op = op /\ last.user = NoUser

\* the last call was a wrong-password call on an active, unlocked user and
\* did not lock the account
QuietWrongPasswordCall(op) ==
    /\ WrongPasswordCall(op)
    /\ last.before.is_active
    /\ ~is_locked(last.before, last.at)
    /\ ~is_locked(users[last.user], last.at)

\* the outcome of the call with an unknown identifier
UnknownOutcome(op) ==
    IF op = "authenticate_user"
    THEN <<"None", 0, "", NoToken, NoToken>>
    ELSE <<"HTTPException", 401, "Incorrect username or password", NoToken, NoToken>>

\* C18: an authentication call with an unknown identifier and one with a wrong
\* password for an active, unlocked user that stays unlocked give the caller
\* the same outcome, InvalidCredentials, and the call with the unknown
\* identifier changes no user record.
C18_NoEnumeration ==
    /\ [](\A op \in {"authenticate_user", "login"} :
            (UnknownIdentifierCall(op) \/ QuietWrongPasswordCall(op)) =>
                InvalidCredentials(last) /\ Outcome(last) = UnknownOutcome(op))
    /\ [][(last'.op \in {"authenticate_user", "login"} /\ last'.user = NoUser) =>
             users' = users]_vars

\* a wrong password for alice, active and unlocked, below the threshold
C18_Witness ==
    /\ QuietWrongPasswordCall("authenticate_user")
    /\ last.user = 1
    /\ users[1].failed_login_attempts = last.before.failed_login_attempts + 1
    /\ Outcome(last) = UnknownOutcome("authenticate_user")

\* the register call ended with a duplicate error
DuplicateError(req) ==
    \/ /\ req.op = "register_user"
       /\ req.result = "ValueError"
       /\ req.detail \in {"Username '" \o req.username \o "' already exists",
                          "Email '" \o req.email \o "' already registered"}
    \/ req.op = "register" /\ req.status = 409

\* C19: after any interleaving of register calls no two stored users share a
\* username or an email, and a register call whose username or email already
\* exists fails with a duplicate error (409 at the endpoint) and adds no user.
C19_UniqueRegistration ==
    /\ \A u, v \in DOMAIN users :
          u # v => users[u].username # users[v].username /\ users[u].email # users[v].email
    /\ \A r \in DOMAIN reqs :
          (reqs[r].pc = "done" /\ (reqs[r].dup_username \/ reqs[r].dup_email)) =>
              DuplicateError(reqs[r]) /\ reqs[r].created = NoUser

\* the kind of failure the caller of a password change was told, "" for
\* success
PasswordFailure(call) ==
    IF call.op = "update_user_password"
    THEN CASE call.result = "True" -> ""
           [] call.detail = "Current password is incorrect" -> "InvalidCredentials"
           [] call.detail = validate_password_strength(call.new)
                 /\ call.detail # "" -> "WeakPassword"
           [] call.detail = "New password must be different from current password" ->
                 "PasswordUnchanged"
           [] OTHER -> "other"
    ELSE CASE call.status = 200 -> ""
           [] call.status = 400 /\ call.detail = "Incorrect password" -> "InvalidCredentials"
           [] call.status = 422 -> "WeakPassword"
           [] OTHER -> "other"

\* C20: a password change fails with InvalidCredentials when the old
\* password does not verify, WeakPassword when the new one violates the
\* policy, PasswordUnchanged when it equals the old one; a failing call
\* leaves the stored hash unchanged; after a successful call the new
\* password verifies against the stored hash and the old one does not.
C20_ChangePassword ==
    (last.op \in {"update_user_password", "change_password"} /\ last.user \in DOMAIN users) =>
        LET old_ok == verify_password(last.old, last.before.password_hash)
            weak == validate_password_strength(last.new) # ""
        IN /\ ~old_ok => PasswordFailure(last) = "InvalidCredentials"
           /\ (old_ok /\ weak) => PasswordFailure(last) = "WeakPassword"
           /\ (old_ok /\ ~weak /\ last.new = last.old) =>
                 PasswordFailure(last) = "PasswordUnchanged"
           /\ PasswordFailure(last) # "" =>
                 users[last.user].password_hash = last.before.password_hash
           /\ PasswordFailure(last) = "" =>
                 /\ verify_password(last.new, users[last.user].password_hash)
                 /\ ~verify_password(last.old, users[last.user].password_hash)

\* C21: assign_role_to_user is idempotent for every existing user and role,
\* active or inactive: a call for a pair that already has its user_roles row
\* returns True, raises nothing, and leaves the user_roles rows as they are.
C21_AssignIdempotent ==
    [][(/\ last'.op = "assign_role_to_user"
        /\ last'.user \in Users
        /\ last'.role \in DOMAIN roles
        /\ <<last'.user, last'.role>> \in user_roles) =>
           last'.result = "True" /\ user_roles' = user_roles]_vars

\* the user an API key authenticates as: the owner of the first active record
\* the key was issued for, when that record is unexpired and the owner active
KeyOwner(text, t) ==
    IF \E i \in DOMAIN api_keys :
          /\ \E salt \in Salts : api_keys[i].key_hash = hash_api_key(text, salt)
          /\ api_keys[i].is_active /\ ~is_expired(api_keys[i], t)
          /\ users[api_keys[i].user_id].is_active
    THEN api_keys[CHOOSE i \in DOMAIN api_keys :
                     /\ \E salt \in Salts : api_keys[i].key_hash = hash_api_key(text, salt)
                     /\ api_keys[i].is_active].user_id
    ELSE NoUser

\* C22: create-API-key returns a plaintext key which, presented unchanged
\* while the key is active and unexpired and its owner active, authenticates
\* as the owner; any other presented string authenticates as nobody.
C22_ApiKeyRoundTrip ==
    /\ last.op = "create_api_key" =>
          /\ last.status = 200
          /\ get_api_key_user(OpaqueBearer(last.key), api_keys, users, last.at).user
                = last.user
    /\ (last.op = "get_api_key_user" /\ last.bearer.kind # "none") =>
          (KeyOwner(last.bearer.text, last.at) = NoUser => last.user = NoUser)

\* C23: a get_api_key_user call that fails leaves last_used_at of every key
\* unchanged and returns no user.
C23_LastUsedOnlyOnSuccess ==
    [][(last'.op = "get_api_key_user" /\ last'.status # 200) =>
           /\ last'.user = NoUser
           /\ \A i \in DOMAIN api_keys :
                 api_keys'[i].last_used_at = api_keys[i].last_used_at]_vars

\* C24: verify returns True or False for every digest, True only for a
\* digest the hasher produced from the plaintext, and a malformed stored key
\* hash does not make the API-key scan fail.
C24_VerifyNeverRaises ==
    /\ last.op \in {"verify_password", "verify_api_key"} =>
          /\ last.result \in {"True", "False"}
          /\ last.result = "True" <=>
                \E salt \in Salts : last.digest = hash_password(last.plaintext, salt)
    /\ last.op = "get_api_key_user" => last.status # 500

\* the token's signature was made with the server's key over its payload
SignatureVerifies(bearer) ==
    bearer.kind = "jwt" /\ bearer.token.sig = <<SECRET_KEY, bearer.token.payload>>

\* the token's expiry has passed at minute t
Expired(bearer, t) ==
    bearer.kind = "jwt" /\ bearer.token.payload["exp"] < t

\* C25: decode returns claims only for a token whose signature verifies and
\* whose expiry has not passed; no failure returns a claim, and what an
\* expired token raises differs from what a tampered or malformed token
\* raises.
C25_DecodeFailureKinds ==
    last.op = "decode_token" =>
       /\ last.ok <=> (SignatureVerifies(last.bearer) /\ ~Expired(last.bearer, last.at))
       /\ ~last.ok => last.payload = EmptyDict /\ last.raised.status # 0
       /\ (SignatureVerifies(last.bearer) /\ Expired(last.bearer, last.at)) =>
             last.raised # decode_token_raises(OpaqueBearer("invalid.token.here"), last.at)

\* C26: the payload of an access token has type "access", sub str(subject)
\* and the configured expiry whatever the additional claims are; the payload
\* of a refresh token has type "refresh".
C26_ClaimsKeepKind ==
    /\ last.op = "create_access_token" =>
          /\ last.payload["type"] = "access"
          /\ last.payload["sub"] = str_(last.subject)
          /\ last.payload["exp"] = last.at + (JWT_EXPIRATION \div SecondsPerMinute)
    /\ last.op = "create_refresh_token" =>
          /\ last.payload["type"] = "refresh"
          /\ last.payload["sub"] = str_(last.subject)

\* C27: in every committed state failed_login_attempts >= MAX_FAILED_ATTEMPTS
\* implies locked_until is set, and no authenticate_user call is on its way
\* to success with the correct password while another has counted the
\* failure that reaches the threshold and not yet written locked_until.
C27_AtomicLockout ==
    /\ users[ConcUser].failed_login_attempts >= MAX_FAILED_ATTEMPTS =>
          users[ConcUser].locked_until # NoTime
    /\ \A r, q \in DOMAIN reqs :
          ~(reqs[r].pc = "lock" /\ reqs[q].pc \in {"reset", "last_login"}
            /\ reqs[q].user.failed_login_attempts + 1 >= MAX_FAILED_ATTEMPTS)

\* C28: the access token a successful authenticate_user returned for user u,
\* presented unexpired to get_current_user while u is active and unlocked,
\* is accepted and resolves to u.
C28_LoginRoundTrip ==
    (/\ last.op = "authenticate_user"
     /\ last.access # NoToken
     /\ last.access.payload["exp"] >= now
     /\ users[last.user].is_active
     /\ ~is_locked(users[last.user], now)) =>
        get_current_user(JwtBearer(last.access), users, now) = Answer(200, "", last.user)

\* the user whose username is the subject of the presented token
NamedByPresented == get_by_username(users, dict_get(last.bearer.token.payload, "sub"))

\* C29: get_current_user admits a request bearing a validly signed,
\* unexpired access token iff the subject names an existing active user whose
\* locked_until is not in the future; while it is in the future the request
\* is rejected with 403, and the same token is admitted once the lock has
\* lapsed or been cleared.
C29_AdmitIffActiveUnlocked ==
    (last.op = "get_current_user" /\ PresentedValid("access")) =>
        LET u == NamedByPresented IN
        /\ last.status = 200 <=>
              (u # NoUser /\ users[u].is_active /\ ~(users[u].locked_until > last.at))
        /\ last.status = 200 => last.user = u
        /\ (u # NoUser /\ users[u].is_active /\ users[u].locked_until > last.at) =>
              last.status = 403 /\ last.user = NoUser

\* a token issued before the account was locked is admitted after the lock
\* has lapsed
C29_Witness ==
    /\ last.op = "get_current_user" /\ PresentedValid("access")
    /\ last.status = 200
    /\ last.user = AdmitUser
    /\ users[AdmitUser].locked_until # NoTime
    /\ last.bearer.token.payload["iat"] < users[AdmitUser].locked_until
    /\ users[AdmitUser].locked_until <= last.at

\* C30: whenever no adjust_salary call is between its two commits, the
\* employee has exactly one current salary record.
C30_OneCurrentSalary ==
    (\A r \in DOMAIN reqs : reqs[r].pc \in {"start", "returned", "raised"}) =>
        Cardinality(current_salaries(salaries, EmpNo)) = 1

====
